---- MODULE Spec2Model ----
(***************************************************************************)
(* Model of aws_cfn_kafka_admin_provider.py: the merge of the input        *)
(* documents into one canonical document (merge_contents, merge_topics,    *)
(* merge_acls), the build of the typed model (KafkaStack.__init__), and    *)
(* the projection of the model into resources (render_topics,              *)
(* render_acls, import_topic_name, add_topic_schema).                      *)
(*                                                                         *)
(* Encoding of Python values:                                              *)
(*   - a dict is a function whose domain is the set of its keys; the empty *)
(*     dict and the empty list are both <<>>;                              *)
(*   - None is the string "None"; every scalar is a string;                *)
(*   - a list field that pydantic leaves at None is written <<>>: every    *)
(*     test the code makes on such a field (keyisset, "not x") treats None *)
(*     and the empty list alike;                                           *)
(*   - a str whose characters matter is looked up in Chars.                *)
(***************************************************************************)
EXTENDS Naturals, Sequences, FiniteSets, TLC

VARIABLES
    corpus,         \* which family of input documents this run reads
    pc,             \* "files" | "merged" | "built" | "raised"
    exc,            \* the exception that ended the run, or None
    nfiles,         \* how many of files_paths the loop has consumed
    primary,        \* merge_contents' argument `primary` of the last call
    override,       \* merge_contents' argument `override` of the last call
    extend_all,     \* merge_contents' argument `extend_all` of the last call
    final_content,  \* __init__'s final_content
    model,          \* self.model
    globals_config, \* self.globals_config
    template,       \* self.template: title -> resource
    topics_r,       \* self.topics_r: topic Name -> resource
    schemas_r,      \* self.schemas_r: topic_name -> resource
    topic_class,    \* self.topic_class
    acl_class,      \* self.acl_class
    rendered,       \* which of render_topics / render_acls have run, in order
    schema_definition \* topic_name -> the schema_definition add_topic_schema was given

vars == <<corpus, pc, exc, nfiles, primary, override, extend_all, final_content,
          model, globals_config, template, topics_r, schemas_r, topic_class,
          acl_class, rendered, schema_definition>>

\* How many input files a run reads at most.
MaxFiles == 2

\* How many schemas a run adds at most.
MaxSchemas == 1

None == "None"
EmptyDict == <<>>

\* Keys whose value is a dict or a list; the value of any other key is a scalar.
ContainerKeys == {"Globals", "Schemas", "Topics", "ACLs", "Policies"}

\* Python truthiness of y[x], by the kind of value the key x holds.
Truthy(x, v) == IF x \in ContainerKeys THEN v # <<>> ELSE v \notin {None, ""}

keyisset(x, y) == x \in DOMAIN y /\ Truthy(x, y[x])

keypresent(x, y) == x \in DOMAIN y

\* d.update(o)
update(d, o) == o @@ d

\* del d[k]
Del(d, k) == [x \in DOMAIN d \ {k} |-> d[x]]

(***************************************************************************)
(* The pydantic models of .model: X.parse_obj(raw).dict() holds every      *)
(* declared field, with the field's default where raw does not set it.     *)
(***************************************************************************)
WithDefaults(raw, defaults) ==
    [k \in DOMAIN defaults |-> IF k \in DOMAIN raw THEN raw[k] ELSE defaults[k]]

EwsKafkaParmetersDefaults ==
    [BootstrapServers |-> None, SASLUsername |-> None, SecurityProtocol |-> "PLAINTEXT"]

\* BootstrapServers is required: parse_obj raises a ValidationError without it.
EwsKafkaParmetersValid(raw) == keyisset("BootstrapServers", raw)

EwsKafkaParmetersDict(raw) == WithDefaults(raw, EwsKafkaParmetersDefaults)

SchemasDefDefaults ==
    [RegistryUrl |-> None, RegistryUsername |-> None, RegistryPassword |-> None,
     FunctionName |-> None]

SchemasDefDict(raw) == WithDefaults(raw, SchemasDefDefaults)

TopicDict(raw) == WithDefaults(raw, [Name |-> None, ReplicationFactor |-> None])

TopicsDefaults ==
    [FunctionName |-> None, ReplicationFactor |-> "3", DeletionPolicy |-> "Retain",
     Topics |-> <<>>]

TopicsDict(raw) ==
    LET d == WithDefaults(raw, TopicsDefaults)
    IN  [d EXCEPT !["Topics"] = [i \in 1..Len(@) |-> TopicDict(@[i])]]

PolicyDict(raw) ==
    WithDefaults(raw, [ResourceType |-> None, Resource |-> None, Principal |-> None,
                       Host |-> None])

ACLsDefaults == [FunctionName |-> None, Policies |-> <<>>]

ACLsDict(raw) ==
    LET d == WithDefaults(raw, ACLsDefaults)
    IN  [d EXCEPT !["Policies"] = [i \in 1..Len(@) |-> PolicyDict(@[i])]]

(***************************************************************************)
(* merge_topics                                                            *)
(***************************************************************************)
\* The keys of {v["Name"]: v for v in s}, in insertion order.
RECURSIVE DictKeys(_)
DictKeys(s) ==
    IF s = <<>> THEN <<>>
    ELSE LET init == DictKeys(SubSeq(s, 1, Len(s) - 1))
             last == s[Len(s)]["Name"]
         IN  IF \E i \in 1..Len(init) : init[i] = last THEN init
             ELSE Append(init, last)

\* A greatest element of a non-empty set of numbers.
Max(S) == CHOOSE m \in S : \A n \in S : n <= m

\* list({v["Name"]: v for v in s}.values()): a later entry replaces the value of
\* an earlier one of the same Name, at the earlier one's position.
DictValuesByName(s) ==
    LET keys == DictKeys(s)
    IN  [i \in 1..Len(keys) |->
            s[Max({j \in 1..Len(s) : s[j]["Name"] = keys[i]})]]

\* A plausible slip: the lists concatenated the other way round.
MergedTopicListsPrimaryFirst(override_list, final_list) == final_list \o override_list

MergedTopicLists(override_list, final_list) == override_list \o final_list

\* A plausible slip: the concatenation kept as it is, with no keying by Name.
TopicsOfMergedListsUnkeyed(merged_lists) == merged_lists

TopicsOfMergedLists(merged_lists) == DictValuesByName(merged_lists)

\* A plausible slip: the list dropped from the override only when it is empty.
OverrideTopicsWithoutListKeepingList(override_topics) ==
    IF override_topics["Topics"] = <<>> THEN Del(override_topics, "Topics")
    ELSE override_topics

OverrideTopicsWithoutList(override_topics) == Del(override_topics, "Topics")

merge_topics(final, ovr, ext) ==
    IF ~keyisset("Topics", ovr) THEN final
    ELSE LET override_topics == TopicsDict(ovr["Topics"])
         IN  IF keypresent("Topics", override_topics) /\ ~ext
               THEN [final EXCEPT !["Topics"] =
                        update(@, OverrideTopicsWithoutList(override_topics))]
             ELSE IF keyisset("Topics", override_topics) /\ ext
               THEN LET merged_lists ==
                            IF keyisset("Topics", final["Topics"])
                              THEN MergedTopicLists(override_topics["Topics"],
                                                    final["Topics"]["Topics"])
                              ELSE override_topics["Topics"]
                        topics == TopicsOfMergedLists(merged_lists)
                    IN  [final EXCEPT !["Topics"] =
                            ("Topics" :> topics) @@ update(@, override_topics)]
             ELSE final

(***************************************************************************)
(* merge_acls                                                              *)
(***************************************************************************)
Range(s) == {s[i] : i \in 1..Len(s)}

\* Every list that holds each element of S once: a Python set iterates in an
\* order the program does not choose.
RECURSIVE Orderings(_)
Orderings(S) ==
    IF S = {} THEN {<<>>}
    ELSE UNION {{Append(s, x) : s \in Orderings(S \ {x})} : x \in S}

\* A plausible slip: the concatenated list kept, duplicates included.
AclsOfMergedListsKept(merged_lists) == {merged_lists}

\* [dict(y) for y in set(tuple(x.items()) for x in merged_lists)]
AclsOfMergedLists(merged_lists) == Orderings(Range(merged_lists))

OverrideAclsWithoutPolicies(override_acls) == Del(override_acls, "Policies")

\* The set of values final may hold after merge_acls(final, override, extend_all).
merge_acls(final, ovr, ext) ==
    IF ~keyisset("ACLs", ovr) THEN {final}
    ELSE LET override_acls == ACLsDict(ovr["ACLs"])
         IN  IF keypresent("Policies", override_acls) /\ ~ext
               THEN {[final EXCEPT !["ACLs"] =
                        update(@, OverrideAclsWithoutPolicies(override_acls))]}
             ELSE IF keyisset("Policies", override_acls) /\ ext
               THEN LET merged_lists ==
                            IF keyisset("Policies", final["ACLs"])
                              THEN override_acls["Policies"] \o final["ACLs"]["Policies"]
                              ELSE override_acls["Policies"]
                    IN  {[final EXCEPT !["ACLs"] =
                            ("Policies" :> acls) @@ update(@, override_acls)]
                         : acls \in AclsOfMergedLists(merged_lists)}
             ELSE {final}

(***************************************************************************)
(* merge_contents                                                          *)
(***************************************************************************)
\* Every section of a document read here is a dict (isinstance(..., dict) holds).
merge_globals(final, ovr) ==
    IF keypresent("Globals", final) /\ keyisset("Globals", ovr)
      THEN [final EXCEPT !["Globals"] = update(@, EwsKafkaParmetersDict(ovr["Globals"]))]
      ELSE final

merge_schemas(final, ovr) ==
    IF keypresent("Schemas", final) /\ keyisset("Schemas", ovr)
      THEN [final EXCEPT !["Schemas"] = update(@, SchemasDefDict(ovr["Schemas"]))]
    ELSE IF ~keypresent("Schemas", final) /\ keyisset("Schemas", ovr)
      THEN ("Schemas" :> SchemasDefDict(ovr["Schemas"])) @@ final
    ELSE final

\* merge_contents raises (a ValidationError of EwsKafkaParmeters.parse_obj).
merge_contents_raises(prim, ovr) ==
    /\ keypresent("Globals", prim)
    /\ keyisset("Globals", ovr)
    /\ ~EwsKafkaParmetersValid(ovr["Globals"])

\* The set of values merge_contents(primary, override, extend_all) may return.
merge_contents(prim, ovr, ext) ==
    {merge_topics(f, ovr, ext) :
        f \in merge_acls(merge_schemas(merge_globals(prim, ovr), ovr), ovr, ext)}

(***************************************************************************)
(* The input documents.  A run reads its files from one corpus; the        *)
(* corpora differ in the section they vary.                                *)
(***************************************************************************)
TopicA == "my-topic_1"
TopicB == "orders_v2"
External == "ext-group"
BareFunction == "fn"
ArnFunction == "arn:aws:fn"

ListsUpTo2(S) == {<<>>} \cup {<<a>> : a \in S} \cup {<<a, b>> : a \in S, b \in S}

Section(key, opts) == {key :> o : o \in opts}

Absent == {EmptyDict}

ValidGlobals == Section("Globals", {[BootstrapServers |-> "b1"]})

FunctionNameOpts(key) ==
    {EmptyDict, key :> BareFunction, key :> ArnFunction}

GlobalsCorpus ==
    LET G == Absent \cup Section("Globals",
                 {EmptyDict,
                  [BootstrapServers |-> "b1", SASLUsername |-> "u1"],
                  [BootstrapServers |-> "b2"],
                  [BootstrapServers |-> "b2", SecurityProtocol |-> "SSL"],
                  [SASLUsername |-> "u2"]})
        S == Absent \cup Section("Schemas",
                 {EmptyDict,
                  [RegistryUrl |-> "r1", FunctionName |-> BareFunction],
                  [RegistryUrl |-> "r2"],
                  [RegistryUsername |-> "ru", RegistryPassword |-> "rp"]})
        T == Absent \cup Section("Topics", {[Topics |-> <<[Name |-> TopicA]>>]})
    IN  {g @@ s @@ t : g \in G, s \in S, t \in T}

RawTopics ==
    {[Name |-> TopicA],
     [Name |-> TopicA, ReplicationFactor |-> "1"],
     [Name |-> TopicA, ReplicationFactor |-> "3"],
     [Name |-> TopicB, ReplicationFactor |-> "1"]}

TopicsCorpus ==
    LET T == Absent \cup Section("Topics",
                 {f @@ l : f \in FunctionNameOpts("FunctionName")
                                \cup {[ReplicationFactor |-> "2", DeletionPolicy |-> "Delete"]},
                           l \in Absent \cup Section("Topics", ListsUpTo2(RawTopics))})
    IN  {g @@ t : g \in ValidGlobals, t \in T}

RawPolicies ==
    {[ResourceType |-> "TOPIC", Resource |-> TopicA, Principal |-> "User:app"],
     [ResourceType |-> "TOPIC", Resource |-> TopicA, Principal |-> "User:app", Host |-> "h1"],
     [ResourceType |-> "GROUP", Resource |-> TopicA, Principal |-> "User:app"]}

AclsCorpus ==
    LET A == Absent \cup Section("ACLs",
                 {f @@ l : f \in FunctionNameOpts("FunctionName"),
                           l \in Absent \cup Section("Policies", ListsUpTo2(RawPolicies))})
    IN  {g @@ a : g \in ValidGlobals, a \in A}

PolicyOn(type, resource) ==
    [ResourceType |-> type, Resource |-> resource, Principal |-> "User:app"]

\* Policies on a topic of the run, on a name no topic of the run has, and on a
\* group named like a topic of the run.
MixedPolicyLists ==
    {<<>>,
     <<PolicyOn("TOPIC", TopicA)>>,
     <<PolicyOn("TOPIC", TopicB)>>,
     <<PolicyOn("TOPIC", TopicA), PolicyOn("TOPIC", External), PolicyOn("GROUP", TopicA)>>}

MixedCorpus ==
    LET T == Absent \cup Section("Topics",
                 {[Topics |-> l] : l \in {<<>>, <<[Name |-> TopicA]>>,
                                          <<[Name |-> TopicB], [Name |-> TopicA]>>}})
        A == Absent \cup Section("ACLs",
                 {[Policies |-> l] : l \in MixedPolicyLists})
    IN  {g @@ t @@ a : g \in ValidGlobals, t \in T, a \in A}

Corpora == {"globals", "topics", "acls", "mixed"}

Docs(c) ==
    CASE c = "globals" -> GlobalsCorpus
      [] c = "topics" -> TopicsCorpus
      [] c = "acls" -> AclsCorpus
      [] c = "mixed" -> MixedCorpus

(***************************************************************************)
(* KafkaStack.__init__                                                     *)
(***************************************************************************)
Init ==
    /\ corpus \in Corpora
    /\ pc = "files"
    /\ exc = None
    /\ nfiles = 0
    /\ primary = EmptyDict
    /\ override = EmptyDict
    /\ extend_all = FALSE
    /\ final_content = [Globals |-> EmptyDict, Topics |-> EmptyDict, ACLs |-> EmptyDict]
    /\ model = EmptyDict
    /\ globals_config = EmptyDict
    /\ template = EmptyDict
    /\ topics_r = EmptyDict
    /\ schemas_r = EmptyDict
    /\ topic_class = "RTopic"
    /\ acl_class = "RACLs"
    /\ rendered = <<>>
    /\ schema_definition = EmptyDict

Raise(e) ==
    /\ pc' = "raised"
    /\ exc' = e

\* The locals of __init__ and of merge_contents end with __init__.
LocalsEnd ==
    /\ nfiles' = 0
    /\ primary' = EmptyDict
    /\ override' = EmptyDict
    /\ extend_all' = FALSE
    /\ final_content' = EmptyDict

\* One call final_content = merge_contents(final_content, doc, ext).
MergeCall(doc, ext) ==
    /\ primary' = final_content
    /\ override' = doc
    /\ extend_all' = ext
    /\ final_content' \in merge_contents(final_content, doc, ext)

\* The loop body for a path ending in .yaml or .yml.
ReadFile ==
    /\ pc = "files"
    /\ nfiles < MaxFiles
    /\ \E doc \in Docs(corpus) :
        IF merge_contents_raises(final_content, doc)
          THEN /\ Raise("ValidationError")
               /\ LocalsEnd
          ELSE /\ MergeCall(doc, TRUE)
               /\ nfiles' = nfiles + 1
               /\ UNCHANGED <<pc, exc>>
    /\ UNCHANGED <<corpus, model, globals_config, template, topics_r, schemas_r,
                   topic_class, acl_class, rendered, schema_definition>>

\* The loop body for any other path: the file is not read.
SkipFile ==
    /\ pc = "files"
    /\ nfiles < MaxFiles
    /\ nfiles' = nfiles + 1
    /\ UNCHANGED <<corpus, pc, exc, primary, override, extend_all, final_content, model,
                   globals_config, template, topics_r, schemas_r, topic_class,
                   acl_class, rendered, schema_definition>>

\* A file whose top level is not a mapping: merge_contents raises TypeError.
ReadNotADict ==
    /\ pc = "files"
    /\ Raise("TypeError")
    /\ LocalsEnd
    /\ UNCHANGED <<corpus, model, globals_config, template, topics_r, schemas_r,
                   topic_class, acl_class, rendered, schema_definition>>

\* After the loop, with config_file_path set: the merge of the config file.
ReadConfigFile ==
    /\ pc = "files"
    /\ \E doc \in Docs(corpus) :
        IF merge_contents_raises(final_content, doc)
          THEN /\ Raise("ValidationError")
               /\ LocalsEnd
          ELSE /\ MergeCall(doc, FALSE)
               /\ pc' = "merged"
               /\ UNCHANGED <<exc, nfiles>>
    /\ UNCHANGED <<corpus, model, globals_config, template, topics_r, schemas_r,
                   topic_class, acl_class, rendered, schema_definition>>

\* Model.parse_obj raises a ValidationError.
ModelRaises(content) == ~EwsKafkaParmetersValid(content["Globals"])

\* Model.parse_obj(content): an Optional section that is absent is None, written
\* here as a key the model does not hold.
ModelParseObj(content) ==
    [k \in DOMAIN content |->
        CASE k = "Globals" -> EwsKafkaParmetersDict(content[k])
          [] k = "Schemas" -> SchemasDefDict(content[k])
          [] k = "Topics" -> TopicsDict(content[k])
          [] k = "ACLs" -> ACLsDict(content[k])]

\* bool(self.model.X): a pydantic object is truthy, None is not.
ObjectIsSet(m, k) == k \in DOMAIN m

\* not self.model.Topics and not self.model.ACLs
Incomplete(m) == ~ObjectIsSet(m, "Topics") /\ ~ObjectIsSet(m, "ACLs")

NoValue == "Ref(AWS::NoValue)"

\* set_globals
GlobalsConfigOf(m) ==
    [BootstrapServers |-> m["Globals"]["BootstrapServers"],
     SASLUsername |-> IF Truthy("SASLUsername", m["Globals"]["SASLUsername"])
                        THEN m["Globals"]["SASLUsername"] ELSE NoValue,
     SecurityProtocol |-> m["Globals"]["SecurityProtocol"]]

\* The rest of __init__: self.model = Model.parse_obj(final_content), the check,
\* set_globals().  It follows the loop when there is no config_file_path, and
\* the merge of the config file when there is one.
Build ==
    /\ pc \in {"files", "merged"}
    /\ IF ModelRaises(final_content)
         THEN /\ Raise("ValidationError")
              /\ UNCHANGED <<model, globals_config>>
       ELSE IF Incomplete(ModelParseObj(final_content))
         THEN /\ Raise("KeyError")
              /\ model' = ModelParseObj(final_content)
              /\ UNCHANGED globals_config
       ELSE /\ pc' = "built"
            /\ model' = ModelParseObj(final_content)
            /\ globals_config' = GlobalsConfigOf(ModelParseObj(final_content))
            /\ UNCHANGED exc
    /\ LocalsEnd
    /\ UNCHANGED <<corpus, template, topics_r, schemas_r, topic_class, acl_class,
                   rendered, schema_definition>>

(***************************************************************************)
(* Strings whose characters the code looks at.                             *)
(***************************************************************************)
Chars ==
    (TopicA :> <<"m", "y", "-", "t", "o", "p", "i", "c", "_", "1">>)
        @@ (TopicB :> <<"o", "r", "d", "e", "r", "s", "_", "v", "2">>)
        @@ (External :> <<"e", "x", "t", "-", "g", "r", "o", "u", "p">>)
        @@ (BareFunction :> <<"f", "n">>)
        @@ (ArnFunction :> <<"a", "r", "n", ":", "a", "w", "s", ":", "f", "n">>)

LowerLetters ==
    <<"a", "b", "c", "d", "e", "f", "g", "h", "i", "j", "k", "l", "m",
      "n", "o", "p", "q", "r", "s", "t", "u", "v", "w", "x", "y", "z">>

UpperLetters ==
    <<"A", "B", "C", "D", "E", "F", "G", "H", "I", "J", "K", "L", "M",
      "N", "O", "P", "Q", "R", "S", "T", "U", "V", "W", "X", "Y", "Z">>

Digits == {"0", "1", "2", "3", "4", "5", "6", "7", "8", "9"}

IsLower(c) == \E i \in DOMAIN LowerLetters : LowerLetters[i] = c

IsUpper(c) == \E i \in DOMAIN UpperLetters : UpperLetters[i] = c

IsCased(c) == IsLower(c) \/ IsUpper(c)

Upper(c) ==
    IF IsLower(c) THEN UpperLetters[CHOOSE i \in DOMAIN LowerLetters : LowerLetters[i] = c]
    ELSE c

Lower(c) ==
    IF IsUpper(c) THEN LowerLetters[CHOOSE i \in DOMAIN UpperLetters : UpperLetters[i] = c]
    ELSE c

\* str.startswith
StartsWith(s, prefix) ==
    Len(prefix) <= Len(s) /\ SubSeq(s, 1, Len(prefix)) = prefix

\* str.replace(ch, "")
Remove(s, ch) == SelectSeq(s, LAMBDA c : c # ch)

\* str.title(): a cased character is upper-cased when the character before it
\* is not cased, and lower-cased when it is.
RECURSIVE TitleFrom(_, _)
TitleFrom(s, previous_is_cased) ==
    IF s = <<>> THEN <<>>
    ELSE LET c == Head(s)
         IN  IF IsCased(c)
               THEN <<IF previous_is_cased THEN Lower(c) ELSE Upper(c)>>
                        \o TitleFrom(Tail(s), TRUE)
               ELSE <<c>> \o TitleFrom(Tail(s), FALSE)

Title(s) == TitleFrom(s, FALSE)

\* NONALPHANUM.sub("", s)
StripNonAlphaNum(s) == SelectSeq(s, LAMBDA c : IsCased(c) \/ c \in Digits)

\* topic_title of render_topics.
TopicTitle(name) == StripNonAlphaNum(Title(Remove(Chars[name], "-")))

(***************************************************************************)
(* render_topics                                                           *)
(***************************************************************************)
ArnPrefix == <<"a", "r", "n", ":", "a", "w", "s">>

\* The update of the resource's configuration that function_name gives: none
\* when function_name is None.  function_name is None before the conditional
\* expression that assigns it, and that is the value the expression keeps for
\* a name that starts with "arn:aws".
ServiceTokenOf(FunctionName) ==
    IF ~Truthy("FunctionName", FunctionName) THEN EmptyDict
    ELSE IF StartsWith(Chars[FunctionName], ArnPrefix) THEN EmptyDict
    ELSE [ServiceToken |-> [Sub |-> FunctionName]]

\* The resource of one topic.  Settings and Schema, which render_topics drops
\* when they are empty, are not part of the topics read here.
TopicResource(m, config, class, topic) ==
    [class |-> class,
     title |-> TopicTitle(topic["Name"]),
     DeletionPolicy |-> m["Topics"]["DeletionPolicy"],
     props |->
        [ReplicationFactor |->
            IF ~Truthy("ReplicationFactor", topic["ReplicationFactor"])
              THEN m["Topics"]["ReplicationFactor"]
              ELSE topic["ReplicationFactor"]]
        @@ update(update(topic, ServiceTokenOf(m["Topics"]["FunctionName"])), config)]

\* The key of self.topics_r under which topic i is registered.
TopicsRKey(topics, i) == topics[i]["Name"]

\* template.add_resource for each resource of the list, in order.  The topics
\* read here have distinct titles.
RECURSIVE AddResources(_, _)
AddResources(t, resources) ==
    IF resources = <<>> THEN t
    ELSE AddResources((Head(resources)["title"] :> Head(resources)) @@ t, Tail(resources))

render_topics ==
    /\ pc = "built"
    /\ \A i \in 1..Len(rendered) : rendered[i] # "topics"
    /\ rendered' = Append(rendered, "topics")
    /\ IF ~ObjectIsSet(model, "Topics") \/ ~keyisset("Topics", model["Topics"])
         THEN UNCHANGED <<topic_class, template, topics_r>>
         ELSE LET topics == model["Topics"]["Topics"]
                  class == IF Truthy("FunctionName", model["Topics"]["FunctionName"])
                             THEN "CTopic" ELSE topic_class
                  resources == [i \in 1..Len(topics) |->
                                  TopicResource(model, globals_config, class, topics[i])]
                  keys == {TopicsRKey(topics, i) : i \in 1..Len(topics)}
              IN  /\ topic_class' = class
                  /\ template' = AddResources(template, resources)
                  /\ topics_r' =
                        [n \in keys |->
                            resources[Max({i \in 1..Len(topics) : TopicsRKey(topics, i) = n})]]
                        @@ topics_r
    /\ UNCHANGED <<corpus, pc, exc, nfiles, primary, override, extend_all, final_content,
                   model, globals_config, schemas_r, acl_class,
                   schema_definition>>

(***************************************************************************)
(* import_topic_name, render_acls                                          *)
(***************************************************************************)
\* GetAtt(resource, "Name")
GetAtt(resource, attribute) == [GetAtt |-> resource["title"], attribute |-> attribute]

\* A str returned as it is.
Literal(s) == [Literal |-> s]

\* A plausible slip: the resource type not looked at.
import_topic_name_any_type(topics, policy) ==
    IF policy["Resource"] \in DOMAIN topics
      THEN GetAtt(topics[policy["Resource"]], "Name")
      ELSE Literal(policy["Resource"])

\* import_topic_name(policy), with self.topics_r as topics.
import_topic_name(topics, policy) ==
    IF policy["ResourceType"] = "TOPIC" /\ policy["Resource"] \in DOMAIN topics
      THEN GetAtt(topics[policy["Resource"]], "Name")
      ELSE Literal(policy["Resource"])

KafkaAclPolicy(topics, policy) ==
    [Resource |-> import_topic_name(topics, policy),
     ResourceType |-> policy["ResourceType"],
     Principal |-> policy["Principal"],
     Host |-> IF Truthy("Host", policy["Host"]) THEN policy["Host"] ELSE "*"]

AclsTitle == <<"A", "C", "L", "s">>

render_acls ==
    /\ pc = "built"
    /\ \A i \in 1..Len(rendered) : rendered[i] # "acls"
    /\ rendered' = Append(rendered, "acls")
    /\ IF ~ObjectIsSet(model, "ACLs") \/ ~keyisset("Policies", model["ACLs"])
         THEN UNCHANGED <<acl_class, template>>
         ELSE LET policies == model["ACLs"]["Policies"]
                  class == IF Truthy("FunctionName", model["ACLs"]["FunctionName"])
                             THEN "CACLs" ELSE acl_class
                  acl == update(globals_config, ServiceTokenOf(model["ACLs"]["FunctionName"]))
                  resource ==
                     [class |-> class,
                      title |-> AclsTitle,
                      props |-> [Policies |-> [i \in 1..Len(policies) |->
                                                  KafkaAclPolicy(topics_r, policies[i])]]
                                @@ acl]
              IN  /\ acl_class' = class
                  /\ template' = AddResources(template, <<resource>>)
    /\ UNCHANGED <<corpus, pc, exc, nfiles, primary, override, extend_all, final_content,
                   model, globals_config, topics_r, schemas_r, topic_class,
                   schema_definition>>

(***************************************************************************)
(* add_topic_schema                                                        *)
(***************************************************************************)
\* The schema definitions add_topic_schema is called with: Type AVRO and
\* SerializeAttribute VALUE, Definition the str "schema.json", and the registry
\* settings all set or all unset.
SchemaDefinitions ==
    {[RegistryUrl |-> c[1], RegistryUsername |-> c[2], RegistryPassword |-> c[3],
      Type |-> "AVRO", SerializeAttribute |-> "value", Definition |-> "schema.json"] :
        c \in {<<None, None, None>>, <<"s-url", "s-user", "s-pass">>}}

\* One of the registry settings: the Schemas section's value when it is set,
\* else the schema definition's, else nothing (None).
RegistrySetting(m, schema_config, key) ==
    IF ObjectIsSet(m, "Schemas") /\ Truthy(key, m["Schemas"][key]) THEN m["Schemas"][key]
    ELSE IF keyisset(key, schema_config) THEN schema_config[key]
    ELSE None

SchemaTitle(topic_name) ==
    topic_name \o <<"A", "V", "R", "O">> \o <<"v", "a", "l", "u", "e">>
        \o <<"S", "c", "h", "e", "m", "a">>

\* The names add_topic_schema is called with: the titles of the model's topics.
SchemaTopicNames ==
    IF ObjectIsSet(model, "Topics")
      THEN {TopicTitle(model["Topics"]["Topics"][i]["Name"]) :
                i \in 1..Len(model["Topics"]["Topics"])}
      ELSE {}

\* add_topic_schema(topic_name, schema_definition); file_found says whether
\* open(schema_definition.Definition) finds a file.  Each topic is given one.
add_topic_schema ==
    /\ pc = "built"
    /\ Cardinality(DOMAIN schemas_r) < MaxSchemas
    /\ \E topic_name \in SchemaTopicNames \ DOMAIN schemas_r,
          definition \in SchemaDefinitions,
          file_found \in BOOLEAN :
        LET schema_class ==
                IF ObjectIsSet(model, "Schemas")
                        /\ Truthy("FunctionName", model["Schemas"]["FunctionName"])
                  THEN "CTopicSchema" ELSE "RTopicSchema"
            registry_url == RegistrySetting(model, definition, "RegistryUrl")
            registry_username ==
                RegistrySetting(model, definition, "RegistryUsername")
            registry_password ==
                RegistrySetting(model, definition, "RegistryPassword")
            topic_schema_r ==
                [class |-> schema_class,
                 title |-> SchemaTitle(topic_name),
                 props |->
                    [SerializeAttribute |-> definition["SerializeAttribute"],
                     Type |-> definition["Type"],
                     Definition |-> IF file_found THEN "json.dumps(json.loads(file))"
                                    ELSE definition["Definition"],
                     Subject |-> [Ref |-> topic_name],
                     RegistryUrl |-> registry_url,
                     RegistryUsername |->
                        IF registry_username = None THEN NoValue ELSE registry_username,
                     RegistryPassword |->
                        IF registry_password = None THEN NoValue ELSE registry_password]]
        IN  /\ schema_definition' = (topic_name :> definition) @@ schema_definition
            /\ IF registry_url = None
                 THEN /\ Raise("KeyError")
                      /\ UNCHANGED <<schemas_r, template>>
                 ELSE /\ schemas_r' = (topic_name :> topic_schema_r) @@ schemas_r
                      /\ template' = AddResources(template, <<topic_schema_r>>)
                      /\ UNCHANGED <<pc, exc>>
    /\ UNCHANGED <<corpus, nfiles, primary, override, extend_all, final_content, model,
                   globals_config, topics_r, topic_class, acl_class, rendered>>

Next ==
    \/ ReadFile
    \/ SkipFile
    \/ ReadNotADict
    \/ ReadConfigFile
    \/ Build
    \/ render_topics
    \/ render_acls
    \/ add_topic_schema

Spec == Init /\ [][Next]_vars

(***************************************************************************)
(* What the properties below read off the state.                           *)
(***************************************************************************)
\* The list under doc[section][key], empty where there is none.
ListOf(doc, section, key) ==
    IF section \in DOMAIN doc /\ key \in DOMAIN doc[section] THEN doc[section][key]
    ELSE <<>>

Names(topics) == {topics[i]["Name"] : i \in 1..Len(topics)}

NoTwoAlike(s) == \A i, j \in 1..Len(s) : s[i] = s[j] => i = j

UniqueNames(topics) ==
    \A i, j \in 1..Len(topics) : topics[i]["Name"] = topics[j]["Name"] => i = j

\* The last call of merge_contents was one of the loop's (extend_all=True).
LastCallExtends == extend_all

\* The last call of merge_contents was the one for config_file_path.
LastCallOverrides == ~extend_all /\ primary # EmptyDict

PrimaryTopics == ListOf(primary, "Topics", "Topics")

OverrideTopics ==
    LET raw == ListOf(override, "Topics", "Topics")
    IN  [i \in 1..Len(raw) |-> TopicDict(raw[i])]

FinalTopics == ListOf(final_content, "Topics", "Topics")

PrimaryPolicies == ListOf(primary, "ACLs", "Policies")

OverridePolicies ==
    LET raw == ListOf(override, "ACLs", "Policies")
    IN  [i \in 1..Len(raw) |-> PolicyDict(raw[i])]

FinalPolicies == ListOf(final_content, "ACLs", "Policies")

(***************************************************************************)
(* C1: add_topic_schema gives the schema resource the per-schema           *)
(* RegistryUrl, RegistryUsername and RegistryPassword whenever the schema  *)
(* definition sets them, also when the Schemas section sets them too.      *)
(* The code takes the section's value first.                               *)
(***************************************************************************)
C1_PerSchemaRegistryWins ==
    \A t \in DOMAIN schemas_r :
        \A key \in {"RegistryUrl", "RegistryUsername", "RegistryPassword"} :
            keyisset(key, schema_definition[t])
                => schemas_r[t]["props"][key] = schema_definition[t][key]

(***************************************************************************)
(* C2: no run whose merged document holds no topic and no policy gets      *)
(* past the build of the model: the projection is reached only with a      *)
(* topic or a policy.  The code tests the sections, which are always       *)
(* there, and never raises.                                                *)
(***************************************************************************)
C2_EmptyRunNeverBuilt ==
    pc = "built"
        => \/ ListOf(model, "Topics", "Topics") # <<>>
           \/ ListOf(model, "ACLs", "Policies") # <<>>

(***************************************************************************)
(* C3: after merge_contents(primary, override, extend_all=True) the merged *)
(* topic list holds exactly the Names of the two lists; a Name of the      *)
(* primary's list, in the override's list or not, has the primary's        *)
(* record, and a Name of the override's list alone has a record of the     *)
(* override's list.                                                        *)
(***************************************************************************)
C3_PrimaryTopicWins ==
    LastCallExtends =>
        /\ Names(FinalTopics) = Names(PrimaryTopics) \cup Names(OverrideTopics)
        /\ \A i \in 1..Len(FinalTopics) :
            LET t == FinalTopics[i]
            IN  IF t["Name"] \in Names(PrimaryTopics)
                  THEN t \in Range(PrimaryTopics)
                  ELSE t \in Range(OverrideTopics)

\* A Name of both lists, with records that differ, and a Name of the
\* override's list alone.
C3_Witness ==
    /\ LastCallExtends
    /\ \E i \in 1..Len(PrimaryTopics), j \in 1..Len(OverrideTopics) :
        /\ PrimaryTopics[i]["Name"] = OverrideTopics[j]["Name"]
        /\ PrimaryTopics[i]["ReplicationFactor"] = "3"
        /\ OverrideTopics[j]["ReplicationFactor"] = "1"
    /\ Names(OverrideTopics) \ Names(PrimaryTopics) # {}

(***************************************************************************)
(* C4: after merge_contents(primary, override, extend_all=True) the        *)
(* Policies list holds no record twice, its records are those of the       *)
(* primary's and of the override's lists, and merging the same override    *)
(* once more leaves the set of policies as it is.                          *)
(***************************************************************************)
C4_AclMergeIsUnion ==
    LastCallExtends =>
        /\ NoTwoAlike(FinalPolicies)
        /\ Range(FinalPolicies) = Range(PrimaryPolicies) \cup Range(OverridePolicies)
        /\ \A again \in merge_contents(final_content, override, TRUE) :
            /\ Range(ListOf(again, "ACLs", "Policies")) = Range(FinalPolicies)
            /\ NoTwoAlike(ListOf(again, "ACLs", "Policies"))

\* The override's list holds a record twice, a record of the primary's list and
\* a record the primary's list does not hold.
C4_Witness ==
    /\ LastCallExtends
    /\ ~NoTwoAlike(OverridePolicies)
    /\ Range(PrimaryPolicies) \cap Range(OverridePolicies) # {}
    /\ Range(PrimaryPolicies) \ Range(OverridePolicies) # {}

(***************************************************************************)
(* C5: the Resource of every policy of the ACLs resource is a reference to *)
(* the Name of a topic resource exactly when the policy's ResourceType is  *)
(* TOPIC and its Resource was a key of topics_r when render_acls ran, and  *)
(* is the policy's Resource otherwise; when render_acls ran after          *)
(* render_topics, every TOPIC policy on a topic of the model refers to the *)
(* resource rendered for that topic.                                       *)
(***************************************************************************)
AclsRendered == AclsTitle \in DOMAIN template

EmittedPolicies == template[AclsTitle]["props"]["Policies"]

\* The keys topics_r held when render_acls ran: render_topics alone writes it.
TopicsKnownToAcls == IF rendered[1] = "topics" THEN DOMAIN topics_r ELSE {}

C5_TopicPoliciesRefer ==
    AclsRendered =>
        \A i \in 1..Len(EmittedPolicies) :
            LET policy == model["ACLs"]["Policies"][i]
                emitted == EmittedPolicies[i]["Resource"]
            IN  /\ IF policy["ResourceType"] = "TOPIC"
                        /\ policy["Resource"] \in TopicsKnownToAcls
                     THEN /\ DOMAIN emitted = {"GetAtt", "attribute"}
                          /\ emitted["attribute"] = "Name"
                          /\ emitted["GetAtt"] \in DOMAIN template
                          /\ template[emitted["GetAtt"]]["props"]["Name"] = policy["Resource"]
                     ELSE emitted = [Literal |-> policy["Resource"]]
                /\ (/\ rendered[1] = "topics"
                    /\ policy["ResourceType"] = "TOPIC"
                    /\ policy["Resource"] \in Names(ListOf(model, "Topics", "Topics")))
                        => "GetAtt" \in DOMAIN emitted

\* ACLs projected after the topics, with a policy that refers to a topic
\* resource, a TOPIC policy on a name no topic has and a GROUP policy named
\* like a topic.
C5_Witness ==
    /\ AclsRendered
    /\ rendered = <<"topics", "acls">>
    /\ \E i, j, k \in 1..Len(EmittedPolicies) :
        /\ "GetAtt" \in DOMAIN EmittedPolicies[i]["Resource"]
        /\ model["ACLs"]["Policies"][j]["ResourceType"] = "TOPIC"
        /\ model["ACLs"]["Policies"][j]["Resource"] \notin DOMAIN topics_r
        /\ model["ACLs"]["Policies"][k]["ResourceType"] = "GROUP"
        /\ model["ACLs"]["Policies"][k]["Resource"] \in DOMAIN topics_r

(***************************************************************************)
(* C6: the title of a topic resource is the topic name title-cased with    *)
(* its hyphens taken as word separators, then stripped of every character  *)
(* that is not a letter or a digit: "my-topic_1" gives "MyTopic1".  The    *)
(* code removes the hyphens before it title-cases.                         *)
(***************************************************************************)
\* str.replace(ch, " ")
Spaced(s, ch) == [i \in 1..Len(s) |-> IF s[i] = ch THEN " " ELSE s[i]]

ClaimedTopicTitle(name) == StripNonAlphaNum(Title(Spaced(Chars[name], "-")))

C6_HyphensSeparateWords ==
    /\ ClaimedTopicTitle(TopicA) = <<"M", "y", "T", "o", "p", "i", "c", "1">>
    /\ \A n \in DOMAIN topics_r : topics_r[n]["title"] = ClaimedTopicTitle(n)

(***************************************************************************)
(* C7: merge_contents leaves every field of Globals and of Schemas that    *)
(* the override document does not set at the primary document's value.     *)
(* The code updates the section with every field of the parsed override,   *)
(* the unset ones at None or at their default.                             *)
(***************************************************************************)
C7_UnsetFieldsKept ==
    primary # EmptyDict =>
        \A section \in {"Globals", "Schemas"} \cap DOMAIN primary :
            \A key \in DOMAIN primary[section] :
                ~(section \in DOMAIN override /\ keyisset(key, override[section]))
                    => final_content[section][key] = primary[section][key]

(***************************************************************************)
(* C8: no two entries of final_content's topic list, nor of the model's,   *)
(* have the same Name.                                                     *)
(***************************************************************************)
C8_TopicNamesUnique ==
    /\ UniqueNames(FinalTopics)
    /\ UniqueNames(ListOf(model, "Topics", "Topics"))

\* Two topics in the list, after a merge whose two lists share a Name and
\* whose override list holds a Name twice.
C8_Witness ==
    /\ Len(FinalTopics) = 2
    /\ Names(PrimaryTopics) \cap Names(OverrideTopics) # {}
    /\ ~UniqueNames(OverrideTopics)

(***************************************************************************)
(* C9: merge_contents(primary, override, extend_all=False) leaves the      *)
(* topic list and the policy list as they are in primary.                  *)
(***************************************************************************)
C9_OverrideKeepsLists ==
    LastCallOverrides =>
        /\ FinalTopics = PrimaryTopics
        /\ FinalPolicies = PrimaryPolicies
        /\ ("Topics" \in DOMAIN final_content["Topics"])
                <=> ("Topics" \in DOMAIN primary["Topics"])
        /\ ("Policies" \in DOMAIN final_content["ACLs"])
                <=> ("Policies" \in DOMAIN primary["ACLs"])

\* The override document holds a topic the primary has not and another record
\* for a topic it has, or a policy the primary has not.
C9_Witness ==
    /\ LastCallOverrides
    /\ \/ /\ PrimaryTopics # <<>>
          /\ Names(OverrideTopics) \ Names(PrimaryTopics) # {}
          /\ \E i \in 1..Len(PrimaryTopics), j \in 1..Len(OverrideTopics) :
                /\ PrimaryTopics[i]["Name"] = OverrideTopics[j]["Name"]
                /\ PrimaryTopics[i] # OverrideTopics[j]
       \/ /\ PrimaryPolicies # <<>>
          /\ Range(OverridePolicies) \ Range(PrimaryPolicies) # {}

(***************************************************************************)
(* C10: with FunctionName set, bare or fully qualified, every resource of  *)
(* the section is the function-backed one and has the fully-qualified      *)
(* function as its ServiceToken; with FunctionName not set it is the       *)
(* direct one and has no ServiceToken.  The code gives no ServiceToken for *)
(* a name that starts with "arn:aws".                                      *)
(***************************************************************************)
FullyQualified(FunctionName) ==
    IF StartsWith(Chars[FunctionName], ArnPrefix) THEN [Arn |-> FunctionName]
    ELSE [Sub |-> FunctionName]

HasVariantOf(resource, FunctionName, backed, direct) ==
    IF Truthy("FunctionName", FunctionName)
      THEN /\ resource["class"] = backed
           /\ "ServiceToken" \in DOMAIN resource["props"]
           /\ resource["props"]["ServiceToken"] = FullyQualified(FunctionName)
      ELSE /\ resource["class"] = direct
           /\ "ServiceToken" \notin DOMAIN resource["props"]

C10_FunctionBackedHasToken ==
    /\ \A n \in DOMAIN topics_r :
        HasVariantOf(topics_r[n], model["Topics"]["FunctionName"], "CTopic", "RTopic")
    /\ AclsRendered =>
        HasVariantOf(template[AclsTitle], model["ACLs"]["FunctionName"], "CACLs", "RACLs")

====
